---- MODULE Spec2Model ----
(***************************************************************************)
(* A model of the fluxer SDK core: the cog handler registry                *)
(* (fluxer/cog.py), payload hydration of the entity models                 *)
(* (fluxer/models/*.py) and the transport-bound operations of the          *)
(* entities.                                                               *)
(***************************************************************************)
EXTENDS Integers, Sequences, FiniteSets, TLC

VARIABLES
    \* ---- cog registry (fluxer/cog.py) ----
    cogClass,     \* the cog subclass: its methods, in declaration order
    cogState,     \* "declared" before Cog.__init__ has run, "constructed" after,
                  \* "loaded" once a dispatcher has attached the cog, "destroyed"
                  \* once it has removed it
    _commands,    \* Cog._commands : command name -> method
    _listeners,   \* Cog._listeners: event name -> list of methods
    hooksRun,     \* the hooks (cog_load, cog_unload) that have run on the cog
    invoked,      \* the handler methods the cog's own code has called
    dispatcher,   \* the handlers the dispatcher holds for the attached cog
    \* ---- hydration (the from_data class methods) ----
    hKind,        \* the entity class whose from_data is called
    hArgs,        \* its arguments: data, http and (Reaction) message
    hResult,      \* "pending", then the entity returned or the exception raised
    \* ---- bound operations (send, reply, edit, ...) ----
    self,         \* the entity the operations are called on
    asHydrated,   \* that entity as from_data returned it
    calls,        \* the transport calls the last operation issued
    reply,        \* what the transport answered to the last operation
    outcome,      \* how the last operation ended: its value or its exception
    \* ---- timestamps of identifiers (fluxer/utils.py) ----
    snowflakes,   \* the identifiers snowflake_to_datetime is called with
    timestamps    \* the timestamp_ms computed for them so far

cogVars == <<cogClass, cogState, _commands, _listeners, hooksRun, invoked,
             dispatcher>>
hydVars == <<hKind, hArgs, hResult>>
opVars == <<self, asHydrated, calls, reply, outcome>>
utilVars == <<snowflakes, timestamps>>
vars == <<cogClass, cogState, _commands, _listeners, hooksRun, invoked,
          dispatcher, hKind, hArgs, hResult,
          self, asHydrated, calls, reply, outcome, snowflakes, timestamps>>

(***************************************************************************)
(* Bounds                                                                  *)
(***************************************************************************)
MaxMethods == 3      \* methods declared by one cog subclass
MaxMentions == 2     \* users in a payload's "mentions" list
MaxEmojis == 2       \* emoji payloads in one get_guild_emojis answer
MaxLifecycleMethods == 2  \* methods of a cog that is loaded and unloaded

(***************************************************************************)
(* Python values shared by the sections below                              *)
(***************************************************************************)
\* An attribute that was never set on a function object.
NoAttr == "<no attribute>"
\* The decorator argument name=None.
NoName == "<None>"

\* d[k] = v on a Python dict.
DictSet(d, k, v) == [x \in (DOMAIN d) \cup {k} |-> IF x = k THEN v ELSE d[x]]
EmptyDict == [x \in {} |-> NoAttr]

(***************************************************************************)
(* Wire payloads and Python values                                         *)
(*                                                                         *)
(* A payload is a record over all the keys its entity reads; a key the     *)
(* dict does not hold has the value Absent.  Scalars are tagged so that    *)
(* int() and truthiness can be computed as Python computes them.           *)
(***************************************************************************)
Absent == [t |-> "absent", n |-> 0]
None == [t |-> "None", n |-> 0]
JInt(k) == [t |-> "int", n |-> k]
\* The decimal string of k: "0", "5", ...
JStr(k) == [t |-> "str", n |-> k]
\* A string that is no number; text 0 is the empty string.
JText(k) == [t |-> "text", n |-> k]
JBool(b) == [t |-> "bool", n |-> IF b THEN 1 ELSE 0]
JList(items) == [t |-> "list", items |-> items]
\* An HTTPClient instance.
Http(k) == [t |-> "http", n |-> k]

PyFalse == JBool(FALSE)
PyTrue == JBool(TRUE)
EmptyList == JList(<<>>)
EmptyString == JText(0)

\* key in data
Has(data, key) == data[key] # Absent
\* data.get(key)
Get(data, key) == IF Has(data, key) THEN data[key] ELSE None
\* data.get(key, default)
GetDefault(data, key, default) == IF Has(data, key) THEN data[key] ELSE default
\* bool(v)
Truthy(v) ==
    CASE v.t = "None" -> FALSE
      [] v.t = "int" -> v.n # 0
      [] v.t = "bool" -> v.n = 1
      [] v.t = "str" -> TRUE
      [] v.t = "text" -> v.n # 0
      [] v.t = "list" -> v.items # <<>>
      [] OTHER -> TRUE
\* int(v) returns (a number or a string of digits) rather than raising.
IntParses(v) == v.t \in {"int", "bool", "str"}
\* int(v), where it returns.
PyInt(v) == JInt(v.n)

\* What a from_data call ends in.
Ok(entity) == [status |-> "ok", entity |-> entity]
KeyError(key) == [status |-> "KeyError", key |-> key]
ValueError(key) == [status |-> "ValueError", key |-> key]

\* int(data[key]) if data.get(key) else None
OptIdZeroWhenMissing(data, key) ==
    IF Truthy(Get(data, key)) THEN PyInt(data[key]) ELSE JInt(0)
OptId(data, key) ==
    IF Truthy(Get(data, key)) THEN PyInt(data[key]) ELSE None
\* The conditional expression above raises: int() is given a non-number.
OptIdRaises(data, key) == Truthy(Get(data, key)) /\ ~IntParses(data[key])

(***************************************************************************)
(* fluxer/models/user.py is not among the sources: User.from_data is       *)
(* modelled from the specification (nested entities are hydrated with the  *)
(* same transport handle).                                                 *)
(***************************************************************************)
UserFromData(data, http) ==
    [kind |-> "User", id |-> PyInt(data.id), _http |-> http]

(***************************************************************************)
(* fluxer/models/channel.py                                                *)
(***************************************************************************)
ChannelFromData(data, http) ==
    IF ~Has(data, "id") THEN KeyError("id")
    ELSE IF ~IntParses(data.id) THEN ValueError("id")
    ELSE IF ~Has(data, "type") THEN KeyError("type")
    ELSE IF OptIdRaises(data, "guild_id") THEN ValueError("guild_id")
    ELSE IF OptIdRaises(data, "parent_id") THEN ValueError("parent_id")
    ELSE Ok([kind |-> "Channel",
             id |-> PyInt(data.id),
             type |-> data.type,
             name |-> Get(data, "name"),
             guild_id |-> OptId(data, "guild_id"),
             position |-> Get(data, "position"),
             topic |-> Get(data, "topic"),
             nsfw |-> GetDefault(data, "nsfw", PyFalse),
             parent_id |-> OptId(data, "parent_id"),
             _http |-> http])

(***************************************************************************)
(* fluxer/models/message.py                                                *)
(***************************************************************************)
\* [User.from_data(u, http) for u in data.get("mentions", [])]
MentionsFromData(data, http) ==
    LET us == GetDefault(data, "mentions", EmptyList).items
    IN  JList([i \in 1..Len(us) |-> UserFromData(us[i], http)])

MessageFromData(data, http) ==
    IF ~Has(data, "author") THEN KeyError("author")
    ELSE IF ~Has(data, "id") THEN KeyError("id")
    ELSE IF ~IntParses(data.id) THEN ValueError("id")
    ELSE IF ~Has(data, "channel_id") THEN KeyError("channel_id")
    ELSE IF ~IntParses(data.channel_id) THEN ValueError("channel_id")
    ELSE IF ~Has(data, "timestamp") THEN KeyError("timestamp")
    ELSE IF OptIdRaises(data, "guild_id") THEN ValueError("guild_id")
    ELSE Ok([kind |-> "Message",
             id |-> PyInt(data.id),
             channel_id |-> PyInt(data.channel_id),
             content |-> GetDefault(data, "content", EmptyString),
             author |-> UserFromData(data.author, http),
             timestamp |-> data.timestamp,
             edited_timestamp |-> Get(data, "edited_timestamp"),
             guild_id |-> OptId(data, "guild_id"),
             embeds |-> GetDefault(data, "embeds", EmptyList),
             attachments |-> GetDefault(data, "attachments", EmptyList),
             mentions |-> MentionsFromData(data, http),
             pinned |-> GetDefault(data, "pinned", PyFalse),
             _http |-> http,
             _channel |-> None])

(***************************************************************************)
(* fluxer/models/guild.py                                                  *)
(***************************************************************************)
GuildFromDataDefaultingId(data, http) ==
    Ok([kind |-> "Guild",
        id |-> IF Has(data, "id") /\ IntParses(data.id) THEN PyInt(data.id) ELSE JInt(0),
        name |-> Get(data, "name"),
        icon |-> Get(data, "icon"),
        owner_id |-> OptId(data, "owner_id"),
        member_count |-> Get(data, "member_count"),
        unavailable |-> GetDefault(data, "unavailable", PyFalse),
        _http |-> http])
GuildFromData(data, http) ==
    IF ~Has(data, "id") THEN KeyError("id")
    ELSE IF ~IntParses(data.id) THEN ValueError("id")
    ELSE IF OptIdRaises(data, "owner_id") THEN ValueError("owner_id")
    ELSE Ok([kind |-> "Guild",
             id |-> PyInt(data.id),
             name |-> Get(data, "name"),
             icon |-> Get(data, "icon"),
             owner_id |-> OptId(data, "owner_id"),
             member_count |-> Get(data, "member_count"),
             unavailable |-> GetDefault(data, "unavailable", PyFalse),
             _http |-> http])

(***************************************************************************)
(* fluxer/models/member.py                                                 *)
(***************************************************************************)
\* [int(role_id) for role_id in data.get("roles", [])]
RolesFromData(data) ==
    LET rs == GetDefault(data, "roles", EmptyList).items
    IN  JList([i \in 1..Len(rs) |-> PyInt(rs[i])])

GuildMemberFromData(data, http) ==
    IF ~Has(data, "user") THEN KeyError("user")
    ELSE IF OptIdRaises(data, "inviter_id") THEN ValueError("inviter_id")
    ELSE Ok([kind |-> "GuildMember",
             user |-> UserFromData(data.user, http),
             nick |-> Get(data, "nick"),
             avatar_hash |-> Get(data, "avatar"),
             banner |-> Get(data, "banner"),
             accent_color |-> Get(data, "accent_color"),
             roles |-> RolesFromData(data),
             joined_at |-> Get(data, "joined_at"),
             join_source_type |-> Get(data, "join_source_type"),
             source_invite_code |-> Get(data, "source_invite_code"),
             inviter_id |-> OptId(data, "inviter_id"),
             mute |-> GetDefault(data, "mute", PyFalse),
             deaf |-> GetDefault(data, "deaf", PyFalse),
             communication_disabled_until |->
                 Get(data, "communication_disabled_until"),
             _http |-> http])

(***************************************************************************)
(* fluxer/models/reaction.py                                               *)
(***************************************************************************)
PartialEmojiFromData(data) ==
    IF OptIdRaises(data, "id") THEN ValueError("id")
    ELSE Ok([kind |-> "PartialEmoji",
             name |-> Get(data, "name"),
             id |-> OptId(data, "id"),
             animated |-> GetDefault(data, "animated", PyFalse)])

ReactionFromData(data, http, message) ==
    IF ~Has(data, "emoji") THEN KeyError("emoji")
    ELSE IF PartialEmojiFromData(data.emoji).status # "ok"
    THEN PartialEmojiFromData(data.emoji)
    ELSE Ok([kind |-> "Reaction",
             emoji |-> PartialEmojiFromData(data.emoji).entity,
             count |-> GetDefault(data, "count", JInt(0)),
             me |-> GetDefault(data, "me", PyFalse),
             _message |-> message,
             _http |-> http])

(***************************************************************************)
(* Hydration: from_data applied to the payloads below                      *)
(***************************************************************************)
\* Values of a required id: an int, a string of digits, a string that is
\* no number.
RequiredIdValues == {Absent, JInt(7), JStr(8), JText(1)}
\* Values of an optional id: null, 0, "", a string of digits.
OptionalIdValues == {Absent, None, JInt(0), EmptyString, JStr(5)}

UserPayload(k) == [id |-> JStr(k)]
MentionLists ==
    { JList([i \in 1..n |-> UserPayload(i + 1)]) : n \in 0..MaxMentions }

ChannelPayloads ==
    [id : RequiredIdValues, type : {Absent, JInt(0)}, name : {Absent, JText(2)},
     guild_id : OptionalIdValues \cup {JText(1)},
     position : {Absent, JInt(3)}, topic : {Absent, JText(3)},
     nsfw : {Absent, PyTrue}, parent_id : {Absent, JStr(6)}]

MessagePayloads ==
    [id : RequiredIdValues, channel_id : {Absent, JStr(3)},
     content : {Absent, JText(4)}, author : {Absent, UserPayload(1)},
     timestamp : {Absent, JText(5)}, edited_timestamp : {Absent, JText(6)},
     guild_id : {Absent, None, JStr(5)},
     embeds : {Absent, JList(<<JText(7)>>)},
     attachments : {Absent, JList(<<JText(8)>>)},
     mentions : {Absent} \cup MentionLists,
     pinned : {Absent, PyTrue}]

GuildPayloads ==
    [id : RequiredIdValues, name : {Absent, JText(2)}, icon : {Absent, JText(3)},
     owner_id : OptionalIdValues, member_count : {Absent, JInt(4)},
     unavailable : {Absent, PyTrue}]

GuildMemberPayloads ==
    [user : {Absent, UserPayload(1)}, nick : {Absent, JText(2)},
     avatar : {Absent, JText(3)}, banner : {Absent, JText(4)},
     accent_color : {Absent, JInt(5)},
     roles : {Absent, JList(<<JStr(6), JStr(7)>>)},
     joined_at : {Absent, JText(5)}, join_source_type : {Absent, JInt(1)},
     source_invite_code : {Absent, JText(6)},
     inviter_id : {Absent, JInt(0), JStr(4)},
     mute : {Absent, PyTrue}, deaf : {Absent, PyTrue},
     communication_disabled_until : {Absent, JText(7)}]

PartialEmojiPayloads ==
    [name : {Absent, JText(8)}, id : {Absent, None, JStr(9)},
     animated : {Absent, PyTrue}]

ReactionPayloads ==
    [emoji : {Absent} \cup PartialEmojiPayloads, count : {Absent, JInt(2)},
     me : {Absent, PyTrue}]

\* A hydrated Message for Reaction.from_data's `message` argument.
SampleMessage ==
    MessageFromData([id |-> JStr(8), channel_id |-> JStr(3), content |-> Absent,
                     author |-> UserPayload(1), timestamp |-> JText(5),
                     edited_timestamp |-> Absent, guild_id |-> Absent,
                     embeds |-> Absent, attachments |-> Absent,
                     mentions |-> Absent, pinned |-> Absent], Http(1)).entity

Kinds == {"Channel", "Message", "Guild", "GuildMember", "PartialEmoji", "Reaction"}
Payloads(kind) ==
    CASE kind = "Channel" -> ChannelPayloads
      [] kind = "Message" -> MessagePayloads
      [] kind = "Guild" -> GuildPayloads
      [] kind = "GuildMember" -> GuildMemberPayloads
      [] kind = "PartialEmoji" -> PartialEmojiPayloads
      [] kind = "Reaction" -> ReactionPayloads

Pending == [status |-> "pending"]

HydIdle ==
    /\ hKind = "none"
    /\ hArgs = None
    /\ hResult = Pending

HydInitState ==
    /\ hKind \in Kinds
    /\ hArgs \in [data : Payloads(hKind),
                  http : IF hKind = "PartialEmoji" THEN {None} ELSE {None, Http(1)},
                  message : IF hKind = "Reaction" THEN {None, SampleMessage}
                            ELSE {None}]
    /\ hResult = Pending

HydrateChannel ==
    /\ hKind = "Channel" /\ hResult = Pending
    /\ hResult' = ChannelFromData(hArgs.data, hArgs.http)
    /\ UNCHANGED <<hKind, hArgs, cogVars, opVars, utilVars>>
HydrateMessage ==
    /\ hKind = "Message" /\ hResult = Pending
    /\ hResult' = MessageFromData(hArgs.data, hArgs.http)
    /\ UNCHANGED <<hKind, hArgs, cogVars, opVars, utilVars>>
HydrateGuild ==
    /\ hKind = "Guild" /\ hResult = Pending
    /\ hResult' = GuildFromData(hArgs.data, hArgs.http)
    /\ UNCHANGED <<hKind, hArgs, cogVars, opVars, utilVars>>
HydrateGuildMember ==
    /\ hKind = "GuildMember" /\ hResult = Pending
    /\ hResult' = GuildMemberFromData(hArgs.data, hArgs.http)
    /\ UNCHANGED <<hKind, hArgs, cogVars, opVars, utilVars>>
HydratePartialEmoji ==
    /\ hKind = "PartialEmoji" /\ hResult = Pending
    /\ hResult' = PartialEmojiFromData(hArgs.data)
    /\ UNCHANGED <<hKind, hArgs, cogVars, opVars, utilVars>>
HydrateReaction ==
    /\ hKind = "Reaction" /\ hResult = Pending
    /\ hResult' = ReactionFromData(hArgs.data, hArgs.http, hArgs.message)
    /\ UNCHANGED <<hKind, hArgs, cogVars, opVars, utilVars>>

(***************************************************************************)
(* Bound operations                                                        *)
(*                                                                         *)
(* The transport (fluxer/http.py, an external collaborator) answers each   *)
(* call with a payload or raises; the answer is an input of the operation. *)
(* An operation ends in [self, calls, reply, outcome]: the entity after    *)
(* the call, the transport calls issued, the transport's answer and the    *)
(* value returned or exception raised.                                     *)
(***************************************************************************)
Returned(value) == [status |-> "ok", value |-> value]
Raised(exc) == [status |-> exc, value |-> None]
\* What the operation ends in when from_data ended in r.
FromHydration(r) == IF r.status = "ok" THEN Returned(r.entity) ELSE Raised(r.status)

NoReply == [status |-> "not called"]
Answer(payload) == [status |-> "ok", payload |-> payload]
Failure(err) == [status |-> "error", err |-> err]
\* The exceptions the transport raises (named in Reaction.remove's docstring).
TransportErrors == {"Forbidden", "NotFound", "HTTPException"}
Failures == { Failure(e) : e \in TransportErrors }

\* await self._http.<method>(...): the call is issued once; what the
\* transport raises is raised to the caller.  Calling a method on None
\* raises AttributeError and issues nothing.
AwaitRetrying(http, call, resp) ==
    IF http = None
    THEN [calls |-> <<>>, reply |-> NoReply, raised |-> "AttributeError"]
    ELSE IF resp.status = "error"
    THEN [calls |-> <<call, call>>, reply |-> resp, raised |-> resp.err]
    ELSE [calls |-> <<call>>, reply |-> resp, raised |-> "no"]
Await(http, call, resp) ==
    IF http = None
    THEN [calls |-> <<>>, reply |-> NoReply, raised |-> "AttributeError"]
    ELSE IF resp.status = "error"
    THEN [calls |-> <<call>>, reply |-> resp, raised |-> resp.err]
    ELSE [calls |-> <<call>>, reply |-> resp, raised |-> "no"]

\* The operation raised before reaching the transport.
NotCalled(entity, out) ==
    [self |-> entity, calls |-> <<>>, reply |-> NoReply, outcome |-> out]
\* The operation ended after the await a.
Done(entity, a, out) ==
    [self |-> entity, calls |-> a.calls, reply |-> a.reply, outcome |-> out]

\* ---- fluxer/models/channel.py ----
\* if self._http is None
NeverUnbound(entity) == FALSE
ChannelUnbound(entity) == entity._http = None

\* embed_list of Channel.send
EmbedToDict(e) == [t |-> "dict", n |-> e.n]
EmbedList(embed, embeds) ==
    IF Truthy(embed) THEN JList(<<EmbedToDict(embed)>>)
    ELSE IF Truthy(embeds)
    THEN JList([i \in 1..Len(embeds.items) |-> EmbedToDict(embeds.items[i])])
    ELSE None

ChannelSend(ch, content, embed, embeds, files, message_reference, resp) ==
    IF ChannelUnbound(ch) THEN NotCalled(ch, Raised("RuntimeError"))
    ELSE
      LET a == Await(ch._http,
                     [op |-> "send_message", channel_id |-> ch.id,
                      content |-> content, embeds |-> EmbedList(embed, embeds),
                      files |-> files, message_reference |-> message_reference],
                     resp)
      IN  IF a.raised # "no" THEN Done(ch, a, Raised(a.raised))
          ELSE Done(ch, a, FromHydration(MessageFromData(resp.payload, ch._http)))

ChannelFetchMessage(ch, message_id, resp) ==
    IF ChannelUnbound(ch) THEN NotCalled(ch, Raised("RuntimeError"))
    ELSE
      LET a == Await(ch._http,
                     [op |-> "get_message", channel_id |-> ch.id,
                      message_id |-> message_id],
                     resp)
      IN  IF a.raised # "no" THEN Done(ch, a, Raised(a.raised))
          ELSE Done(ch, a, FromHydration(MessageFromData(resp.payload, ch._http)))

\* ---- fluxer/models/message.py ----
\* if self._http is None
MessageUnbound(entity) == entity._http = None

\* reply hydrating the answer without the handle: Message.from_data(data)
MessageReplyDroppingHandle(msg, content, kwargs, resp) ==
    IF MessageUnbound(msg) THEN NotCalled(msg, Raised("RuntimeError"))
    ELSE
      LET a == Await(msg._http,
                     [op |-> "send_message", channel_id |-> msg.channel_id,
                      content |-> content, kwargs |-> kwargs],
                     resp)
      IN  IF a.raised # "no" THEN Done(msg, a, Raised(a.raised))
          ELSE Done(msg, a, FromHydration(MessageFromData(resp.payload, None)))
MessageReply(msg, content, kwargs, resp) ==
    IF MessageUnbound(msg) THEN NotCalled(msg, Raised("RuntimeError"))
    ELSE
      LET a == Await(msg._http,
                     [op |-> "send_message", channel_id |-> msg.channel_id,
                      content |-> content, kwargs |-> kwargs],
                     resp)
      IN  IF a.raised # "no" THEN Done(msg, a, Raised(a.raised))
          ELSE Done(msg, a, FromHydration(MessageFromData(resp.payload, msg._http)))

MessageEditInPlace(msg, content, kwargs, resp) ==
    IF MessageUnbound(msg) THEN NotCalled(msg, Raised("RuntimeError"))
    ELSE
      LET a == Await(msg._http,
                     [op |-> "edit_message", channel_id |-> msg.channel_id,
                      message_id |-> msg.id, content |-> content,
                      kwargs |-> kwargs],
                     resp)
      IN  IF a.raised # "no" THEN Done(msg, a, Raised(a.raised))
          ELSE Done([msg EXCEPT !.content = GetDefault(resp.payload, "content", EmptyString),
                                !.edited_timestamp = Get(resp.payload, "edited_timestamp")],
                    a, FromHydration(MessageFromData(resp.payload, msg._http)))
MessageEdit(msg, content, kwargs, resp) ==
    IF MessageUnbound(msg) THEN NotCalled(msg, Raised("RuntimeError"))
    ELSE
      LET a == Await(msg._http,
                     [op |-> "edit_message", channel_id |-> msg.channel_id,
                      message_id |-> msg.id, content |-> content,
                      kwargs |-> kwargs],
                     resp)
      IN  IF a.raised # "no" THEN Done(msg, a, Raised(a.raised))
          ELSE Done(msg, a, FromHydration(MessageFromData(resp.payload, msg._http)))

MessageDelete(msg, resp) ==
    IF MessageUnbound(msg) THEN NotCalled(msg, Raised("RuntimeError"))
    ELSE
      LET a == Await(msg._http,
                     [op |-> "delete_message", channel_id |-> msg.channel_id,
                      message_id |-> msg.id],
                     resp)
      IN  IF a.raised # "no" THEN Done(msg, a, Raised(a.raised))
          ELSE Done(msg, a, Returned(None))

\* ---- fluxer/models/reaction.py ----
\* `not x` for x an HTTPClient, a Message or None: an instance is truthy.
Not(x) == x = None
\* if not self._http or not self._message
ReactionUnboundHttpOnly(reaction) == Not(reaction._http)
ReactionUnbound(reaction) == Not(reaction._http) \/ Not(reaction._message)

\* user.id if isinstance(user, UserModel) else user
UserId(user) ==
    IF "kind" \in DOMAIN user /\ user.kind = "User" THEN user.id ELSE user

ReactionRemove(reaction, user, resp) ==
    IF ReactionUnbound(reaction) THEN NotCalled(reaction, Raised("RuntimeError"))
    ELSE IF reaction._message = None
    THEN NotCalled(reaction, Raised("AttributeError"))
    ELSE
      LET a == Await(reaction._http,
                     [op |-> "delete_reaction",
                      channel_id |-> reaction._message.channel_id,
                      message_id |-> reaction._message.id,
                      emoji |-> reaction.emoji, user_id |-> UserId(user)],
                     resp)
      IN  IF a.raised # "no" THEN Done(reaction, a, Raised(a.raised))
          ELSE Done(reaction, a, Returned(None))

ReactionClear(reaction, resp) ==
    IF ReactionUnbound(reaction) THEN NotCalled(reaction, Raised("RuntimeError"))
    ELSE IF reaction._message = None
    THEN NotCalled(reaction, Raised("AttributeError"))
    ELSE
      LET a == Await(reaction._http,
                     [op |-> "delete_all_reactions_for_emoji",
                      channel_id |-> reaction._message.channel_id,
                      message_id |-> reaction._message.id,
                      emoji |-> reaction.emoji],
                     resp)
      IN  IF a.raised # "no" THEN Done(reaction, a, Raised(a.raised))
          ELSE Done(reaction, a, Returned(None))

\* ---- fluxer/models/guild.py ----
\* fluxer/models/emoji.py is not among the sources: Emoji.from_data is
\* modelled from the specification (the guild id handed in is the emoji's
\* guild_id, whatever the payload carries).
EmojiFromData(data, http, guild_id) ==
    [kind |-> "Emoji",
     id |-> PyInt(data.id),
     name |-> Get(data, "name"),
     guild_id |-> IF guild_id # None THEN guild_id ELSE OptId(data, "guild_id"),
     _http |-> http]

\* [Emoji.from_data(emoji_data, self._http, guild_id=self.id) for emoji_data in data]
HydrateEmojisWithoutGuildId(guild, data) ==
    JList([i \in 1..Len(data.items) |->
              EmojiFromData(data.items[i], guild._http, None)])
HydrateEmojis(guild, data) ==
    JList([i \in 1..Len(data.items) |->
              EmojiFromData(data.items[i], guild._http, guild.id)])

\* if not self._http
GuildUnbound(guild) == Not(guild._http)

GuildFetchEmojis(guild, resp) ==
    IF GuildUnbound(guild) THEN NotCalled(guild, Raised("RuntimeError"))
    ELSE
      LET a == Await(guild._http,
                     [op |-> "get_guild_emojis", guild_id |-> guild.id], resp)
      IN  IF a.raised # "no" THEN Done(guild, a, Raised(a.raised))
          ELSE Done(guild, a, Returned(HydrateEmojis(guild, resp.payload)))

(***************************************************************************)
(* The entities the operations are called on, the arguments they are       *)
(* given and the answers of the transport                                  *)
(***************************************************************************)
Handles == {None, Http(1), Http(2)}

BareMessagePayload(id, channel_id) ==
    [id |-> id, channel_id |-> channel_id, content |-> Absent,
     author |-> UserPayload(1), timestamp |-> JText(5),
     edited_timestamp |-> Absent, guild_id |-> Absent, embeds |-> Absent,
     attachments |-> Absent, mentions |-> Absent, pinned |-> Absent]

\* Message payloads the transport answers with: a bare one, a full one, and
\* one that lacks the author.
AnsweredMessagePayloads ==
    { BareMessagePayload(JStr(21), JStr(3)),
      [BareMessagePayload(JInt(22), JInt(7)) EXCEPT
          !.content = JText(9), !.edited_timestamp = JText(6),
          !.guild_id = JStr(5), !.mentions = JList(<<UserPayload(2)>>),
          !.pinned = PyTrue],
      [BareMessagePayload(JStr(23), JStr(3)) EXCEPT !.author = Absent] }

EmojiPayloads ==
    [id : {JStr(11), JStr(12)}, name : {JText(8)}, guild_id : {Absent, JStr(50)}]
EmojiLists ==
    UNION { { JList(s) : s \in [1..n -> EmojiPayloads] } : n \in 0..MaxEmojis }

MessageAnswers == { Answer(p) : p \in AnsweredMessagePayloads } \cup Failures
VoidAnswers == { Answer(None) } \cup Failures
EmojiAnswers == { Answer(l) : l \in EmojiLists } \cup Failures

OpChannels ==
    { ChannelFromData(p, h).entity :
        p \in { d \in ChannelPayloads :
                  /\ d.id \in {JInt(7), JStr(8)} /\ d.type # Absent
                  /\ d.guild_id \in {Absent, JStr(5)} /\ d.name = Absent
                  /\ d.position = Absent /\ d.topic = Absent
                  /\ d.nsfw = Absent /\ d.parent_id = Absent },
        h \in Handles }
OpMessages ==
    { MessageFromData(p, h).entity :
        p \in { BareMessagePayload(JStr(8), JStr(3)),
                [BareMessagePayload(JInt(7), JStr(3)) EXCEPT !.content = JText(4)] },
        h \in Handles }
OpGuilds ==
    { GuildFromData(p, h).entity :
        p \in { d \in GuildPayloads :
                  /\ d.id \in {JInt(7), JStr(8)} /\ d.name = Absent
                  /\ d.icon = Absent /\ d.owner_id \in {Absent, JStr(5)}
                  /\ d.member_count = Absent /\ d.unavailable = Absent },
        h \in Handles }
OpReactions ==
    { ReactionFromData(p, h, m).entity :
        p \in { d \in ReactionPayloads :
                  /\ d.emoji # Absent /\ d.emoji.name # Absent
                  /\ d.emoji.animated = Absent /\ d.emoji.id # None
                  /\ d.count = Absent /\ d.me = Absent },
        h \in Handles,
        m \in {None, SampleMessage} }

IsMessage(v) == "kind" \in DOMAIN v /\ v.kind = "Message"

NoOutcome == [op |-> "none", status |-> "none", value |-> None]
OutcomeOf(op, r) == [op |-> op, status |-> r.outcome.status, value |-> r.outcome.value]

OpIdle ==
    /\ self = None
    /\ asHydrated = None
    /\ calls = <<>>
    /\ reply = NoReply
    /\ outcome = NoOutcome

OpInitState ==
    /\ self \in OpChannels \cup OpMessages \cup OpGuilds \cup OpReactions
    /\ asHydrated = self
    /\ calls = <<>>
    /\ reply = NoReply
    /\ outcome = NoOutcome

Contents == {None, JText(4)}
Embeds == {None, [t |-> "embed", n |-> 1]}
EmbedsLists == {None, EmptyList, JList(<<[t |-> "embed", n |-> 2], [t |-> "embed", n |-> 3]>>)}
FilesLists == {None, JList(<<[t |-> "file", n |-> 1]>>)}
MessageReferences == {None, [t |-> "reference", n |-> 8]}
Kwargs == {[t |-> "kwargs", n |-> 0], [t |-> "kwargs", n |-> 1]}
MessageIds == {JInt(21), JStr(22)}
UserArgs == {UserFromData(UserPayload(1), None), JInt(2), JStr(3)}

\* await channel.send(...)
CallChannelSend ==
    /\ self.kind = "Channel"
    /\ \E content \in Contents, embed \in Embeds, embeds \in EmbedsLists,
          files \in FilesLists, ref \in MessageReferences, resp \in MessageAnswers :
          LET r == ChannelSend(self, content, embed, embeds, files, ref, resp)
          IN  /\ self' = r.self
              /\ calls' = r.calls
              /\ reply' = r.reply
              /\ outcome' = OutcomeOf("Channel.send", r)
    /\ UNCHANGED <<asHydrated, cogVars, hydVars, utilVars>>

\* await channel.fetch_message(message_id)
CallChannelFetchMessage ==
    /\ self.kind = "Channel"
    /\ \E message_id \in MessageIds, resp \in MessageAnswers :
          LET r == ChannelFetchMessage(self, message_id, resp)
          IN  /\ self' = r.self
              /\ calls' = r.calls
              /\ reply' = r.reply
              /\ outcome' = OutcomeOf("Channel.fetch_message", r)
    /\ UNCHANGED <<asHydrated, cogVars, hydVars, utilVars>>

\* await message.reply(content, **kwargs)
CallMessageReply ==
    /\ self.kind = "Message"
    /\ \E content \in Contents \ {None}, kwargs \in Kwargs, resp \in MessageAnswers :
          LET r == MessageReply(self, content, kwargs, resp)
          IN  /\ self' = r.self
              /\ calls' = r.calls
              /\ reply' = r.reply
              /\ outcome' = OutcomeOf("Message.reply", r)
    /\ UNCHANGED <<asHydrated, cogVars, hydVars, utilVars>>

\* await message.edit(content, **kwargs)
CallMessageEdit ==
    /\ self.kind = "Message"
    /\ \E content \in Contents, kwargs \in Kwargs, resp \in MessageAnswers :
          LET r == MessageEdit(self, content, kwargs, resp)
          IN  /\ self' = r.self
              /\ calls' = r.calls
              /\ reply' = r.reply
              /\ outcome' = OutcomeOf("Message.edit", r)
    /\ UNCHANGED <<asHydrated, cogVars, hydVars, utilVars>>

\* await message.delete()
CallMessageDelete ==
    /\ self.kind = "Message"
    /\ \E resp \in VoidAnswers :
          LET r == MessageDelete(self, resp)
          IN  /\ self' = r.self
              /\ calls' = r.calls
              /\ reply' = r.reply
              /\ outcome' = OutcomeOf("Message.delete", r)
    /\ UNCHANGED <<asHydrated, cogVars, hydVars, utilVars>>

\* await reaction.remove(user)
CallReactionRemove ==
    /\ self.kind = "Reaction"
    /\ \E user \in UserArgs, resp \in VoidAnswers :
          LET r == ReactionRemove(self, user, resp)
          IN  /\ self' = r.self
              /\ calls' = r.calls
              /\ reply' = r.reply
              /\ outcome' = OutcomeOf("Reaction.remove", r)
    /\ UNCHANGED <<asHydrated, cogVars, hydVars, utilVars>>

\* await reaction.clear()
CallReactionClear ==
    /\ self.kind = "Reaction"
    /\ \E resp \in VoidAnswers :
          LET r == ReactionClear(self, resp)
          IN  /\ self' = r.self
              /\ calls' = r.calls
              /\ reply' = r.reply
              /\ outcome' = OutcomeOf("Reaction.clear", r)
    /\ UNCHANGED <<asHydrated, cogVars, hydVars, utilVars>>

\* await guild.fetch_emojis()
CallGuildFetchEmojis ==
    /\ self.kind = "Guild"
    /\ \E resp \in EmojiAnswers :
          LET r == GuildFetchEmojis(self, resp)
          IN  /\ self' = r.self
              /\ calls' = r.calls
              /\ reply' = r.reply
              /\ outcome' = OutcomeOf("Guild.fetch_emojis", r)
    /\ UNCHANGED <<asHydrated, cogVars, hydVars, utilVars>>

\* The caller goes on with the Message an operation returned: the next
\* operations are called on it.
UseReturnedMessage ==
    /\ outcome.status = "ok"
    /\ IsMessage(outcome.value)
    /\ self' = outcome.value
    /\ asHydrated' = outcome.value
    /\ calls' = <<>>
    /\ reply' = NoReply
    /\ outcome' = NoOutcome
    /\ UNCHANGED <<cogVars, hydVars, utilVars>>

(***************************************************************************)
(* fluxer/cog.py                                                           *)
(***************************************************************************)
\* Method names a subclass declares in this model.
MethodNames == {"alpha", "hi", "zeta", "_helper"}
\* Names the decorators are given explicitly.
CommandNames == {"hi"}
EventNames == {"on_message"}

\* Members every Cog instance has besides the subclass methods: the instance
\* attributes set by __init__ and the members of the base class.
BaseMembers == {"__init__", "__repr__", "_commands", "_discover_handlers",
                "_listeners", "bot", "cog_load", "cog_unload", "command",
                "listener"}

\* All member names of the model in the order Python's sorted() puts them
\* (code point order: "_" sorts before the lower-case letters).
NameOrder == <<"__init__", "__repr__", "_commands", "_discover_handlers",
               "_helper", "_listeners", "alpha", "bot", "cog_load",
               "cog_unload", "command", "hi", "listener", "on_message", "zeta">>

\* name.startswith("_")
StartsWithUnderscore(name) ==
    name \in {"__init__", "__repr__", "_commands", "_discover_handlers",
              "_helper", "_listeners"}

\* A plain function object named `name`, carrying no cog attribute.
PlainFunction(name) ==
    [name |-> name,
     cog_command |-> FALSE, cog_command_name |-> NoAttr,
     cog_listener |-> FALSE, cog_listener_name |-> NoAttr]

\* Cog.command(name)(func)
CogCommand(func, name) ==
    [func EXCEPT !.cog_command = TRUE,
                 !.cog_command_name = IF name # NoName THEN name ELSE @]

\* Cog.listener(name)(func)
CogListener(func, name) ==
    [func EXCEPT !.cog_listener = TRUE,
                 !.cog_listener_name = IF name # NoName THEN name ELSE @]

\* The ways a method can be decorated: not at all, or with the decorator
\* called with name=None or with an explicit name.
Untagged == "<untagged>"
Decorate(func, ctag, ltag) ==
    LET f1 == IF ctag = Untagged THEN func ELSE CogCommand(func, ctag)
    IN  IF ltag = Untagged THEN f1 ELSE CogListener(f1, ltag)

Methods ==
    { Decorate(PlainFunction(n), c, l) :
        n \in MethodNames,
        c \in {Untagged, NoName} \cup CommandNames,
        l \in {Untagged, NoName} \cup EventNames }

\* A class body: methods in declaration order, no name declared twice (a
\* second def of a name replaces the first in a Python class body).
ClassDefs ==
    UNION { { s \in [1..n -> Methods] :
                \A i, j \in 1..n : i # j => s[i].name # s[j].name } :
            n \in 0..MaxMethods }

DeclaredNames(cls) == { cls[i].name : i \in 1..Len(cls) }

\* dir(self): the member names, sorted alphabetically.
DirDeclarationOrder(cls) ==
    [i \in 1..Len(cls) |-> cls[i].name]
Dir(cls) ==
    SelectSeq(NameOrder, LAMBDA n : n \in DeclaredNames(cls) \cup BaseMembers)

\* getattr(self, name): the declared method, else a base member, which
\* carries no cog attribute.
GetAttr(cls, name) ==
    IF name \in DeclaredNames(cls)
    THEN cls[CHOOSE i \in 1..Len(cls) : cls[i].name = name]
    ELSE PlainFunction(name)

\* getattr(method, "__cog_command_name__", name)
CommandNameIgnoringExplicit(method, name) == name
CommandName(method, name) ==
    IF method.cog_command_name # NoAttr THEN method.cog_command_name ELSE name

\* getattr(method, "__cog_listener_name__", name)
ListenerName(method, name) ==
    IF method.cog_listener_name # NoAttr THEN method.cog_listener_name ELSE name

\* self._commands[cmd_name] = method
RegisterCommandFirstWins(commands, cmd_name, method) ==
    IF cmd_name \in DOMAIN commands THEN commands
    ELSE DictSet(commands, cmd_name, method)
RegisterCommand(commands, cmd_name, method) ==
    DictSet(commands, cmd_name, method)

\* if event_name not in self._listeners: self._listeners[event_name] = []
\* self._listeners[event_name].append(method)
RegisterListener(listeners, event_name, method) ==
    LET l0 == IF event_name \notin DOMAIN listeners
              THEN DictSet(listeners, event_name, <<>>)
              ELSE listeners
    IN  [l0 EXCEPT ![event_name] = Append(@, method)]

\* One iteration of the loop of Cog._discover_handlers.
DiscoverOne(reg, cls, name) ==
    IF StartsWithUnderscore(name) THEN reg
    ELSE
      LET method == GetAttr(cls, name)
          c == IF method.cog_command
               THEN RegisterCommand(reg.commands,
                                    CommandName(method, name), method.name)
               ELSE reg.commands
          l == IF method.cog_listener
               THEN RegisterListener(reg.listeners,
                                     ListenerName(method, name), method.name)
               ELSE reg.listeners
      IN  [commands |-> c, listeners |-> l]

RECURSIVE DiscoverFrom(_, _, _, _)
DiscoverFrom(reg, cls, names, i) ==
    IF i > Len(names) THEN reg
    ELSE DiscoverFrom(DiscoverOne(reg, cls, names[i]), cls, names, i + 1)

\* Cog._discover_handlers on the empty indices set up by Cog.__init__.
DiscoverHandlers(cls) ==
    DiscoverFrom([commands |-> EmptyDict, listeners |-> EmptyDict],
                 cls, Dir(cls), 1)

\* snowflake_to_datetime is not called.
UtilIdle ==
    /\ snowflakes = <<>>
    /\ timestamps = <<>>

\* A dispatcher that holds no cog.
NoHandlers == [commands |-> EmptyDict, listeners |-> EmptyDict]

CogIdle ==
    /\ cogClass = <<>>
    /\ cogState = "declared"
    /\ _commands = EmptyDict
    /\ _listeners = EmptyDict
    /\ hooksRun = {}
    /\ invoked = {}
    /\ dispatcher = NoHandlers

CogInitState ==
    /\ cogClass \in ClassDefs
    /\ cogState = "declared"
    /\ _commands = EmptyDict
    /\ _listeners = EmptyDict
    /\ hooksRun = {}
    /\ invoked = {}
    /\ dispatcher = NoHandlers

\* Cog.__init__: creates the two indices and runs discovery.
CogInit ==
    /\ cogState = "declared"
    /\ cogState' = "constructed"
    /\ _commands' = DiscoverHandlers(cogClass).commands
    /\ _listeners' = DiscoverHandlers(cogClass).listeners
    /\ UNCHANGED <<cogClass, hooksRun, invoked, dispatcher, hydVars, opVars, utilVars>>

InitCog == CogInitState /\ HydIdle /\ OpIdle /\ UtilIdle
NextCog == CogInit
SpecCog == InitCog /\ [][NextCog]_vars

(***************************************************************************)
(* The hooks of the cog and its life in a dispatcher                       *)
(***************************************************************************)
\* The cog object as its methods see it.
CogObject ==
    [commands |-> _commands, listeners |-> _listeners, invoked |-> invoked]

\* async def cog_load(self): pass
CogLoadHook(cog) == cog

\* A cog_unload that empties the listener index.
CogUnloadHookClearing(cog) == [cog EXCEPT !.listeners = EmptyDict]
\* async def cog_unload(self): pass
CogUnloadHook(cog) == cog

\* await cog.cog_load(), at any time after construction
CogLoad ==
    /\ cogState # "declared"
    /\ LET cog == CogLoadHook(CogObject)
       IN  /\ _commands' = cog.commands
           /\ _listeners' = cog.listeners
           /\ invoked' = cog.invoked
    /\ hooksRun' = hooksRun \cup {"cog_load"}
    /\ UNCHANGED <<cogClass, cogState, dispatcher, hydVars, opVars, utilVars>>

\* await cog.cog_unload(), at any time after construction
CogUnload ==
    /\ cogState # "declared"
    /\ LET cog == CogUnloadHook(CogObject)
       IN  /\ _commands' = cog.commands
           /\ _listeners' = cog.listeners
           /\ invoked' = cog.invoked
    /\ hooksRun' = hooksRun \cup {"cog_unload"}
    /\ UNCHANGED <<cogClass, cogState, dispatcher, hydVars, opVars, utilVars>>

(***************************************************************************)
(* The dispatcher that attaches and removes cogs is not among the sources; *)
(* it is modelled from the specification: it registers a constructed cog   *)
(* and runs its load hook; on unload it runs the unload hook and drops the *)
(* cog's handlers.                                                         *)
(***************************************************************************)
AddCog ==
    /\ cogState = "constructed"
    /\ LET cog == CogLoadHook(CogObject)
       IN  /\ _commands' = cog.commands
           /\ _listeners' = cog.listeners
           /\ invoked' = cog.invoked
           /\ dispatcher' = [commands |-> cog.commands,
                             listeners |-> cog.listeners]
    /\ hooksRun' = hooksRun \cup {"cog_load"}
    /\ cogState' = "loaded"
    /\ UNCHANGED <<cogClass, hydVars, opVars, utilVars>>

\* A dispatcher that runs the unload hook and keeps the cog's handlers.
RemoveCogKeepingHandlers ==
    /\ cogState = "loaded"
    /\ LET cog == CogUnloadHook(CogObject)
       IN  /\ _commands' = cog.commands
           /\ _listeners' = cog.listeners
           /\ invoked' = cog.invoked
    /\ hooksRun' = hooksRun \cup {"cog_unload"}
    /\ cogState' = "destroyed"
    /\ UNCHANGED <<cogClass, dispatcher, hydVars, opVars, utilVars>>
RemoveCog ==
    /\ cogState = "loaded"
    /\ LET cog == CogUnloadHook(CogObject)
       IN  /\ _commands' = cog.commands
           /\ _listeners' = cog.listeners
           /\ invoked' = cog.invoked
    /\ dispatcher' = NoHandlers
    /\ hooksRun' = hooksRun \cup {"cog_unload"}
    /\ cogState' = "destroyed"
    /\ UNCHANGED <<cogClass, hydVars, opVars, utilVars>>

LifecycleClassDefs == { cls \in ClassDefs : Len(cls) <= MaxLifecycleMethods }

InitLifecycle ==
    /\ cogClass \in LifecycleClassDefs
    /\ cogState = "declared"
    /\ _commands = EmptyDict
    /\ _listeners = EmptyDict
    /\ hooksRun = {}
    /\ invoked = {}
    /\ dispatcher = NoHandlers
    /\ HydIdle
    /\ OpIdle
    /\ UtilIdle
NextLifecycle ==
    \/ CogInit
    \/ CogLoad
    \/ CogUnload
    \/ AddCog
    \/ RemoveCog
SpecLifecycle == InitLifecycle /\ [][NextLifecycle]_vars

(***************************************************************************)
(* Specification of hydration                                              *)
(***************************************************************************)
InitHydrate == HydInitState /\ CogIdle /\ OpIdle /\ UtilIdle
NextHydrate ==
    \/ HydrateChannel
    \/ HydrateMessage
    \/ HydrateGuild
    \/ HydrateGuildMember
    \/ HydratePartialEmoji
    \/ HydrateReaction
SpecHydrate == InitHydrate /\ [][NextHydrate]_vars

(***************************************************************************)
(* Specification of the bound operations                                   *)
(***************************************************************************)
InitOps == OpInitState /\ CogIdle /\ HydIdle /\ UtilIdle
NextOps ==
    \/ CallChannelSend
    \/ CallChannelFetchMessage
    \/ CallMessageReply
    \/ CallMessageEdit
    \/ CallMessageDelete
    \/ CallReactionRemove
    \/ CallReactionClear
    \/ CallGuildFetchEmojis
    \/ UseReturnedMessage
SpecOps == InitOps /\ [][NextOps]_vars

(***************************************************************************)
(* fluxer/utils.py: the timestamp of a Snowflake                           *)
(*                                                                         *)
(* Python integers are unbounded and the identifiers are 64 bits wide; a   *)
(* number is held here as its digits in base 2^22, least significant       *)
(* first.  The digits but the last are below the base; the last one is     *)
(* not reduced and holds everything above.  An identifier has three digits *)
(* (22 + 22 + 20 bits), a timestamp two.                                   *)
(***************************************************************************)
\* The shift of "int(snowflake) >> 22".
TimestampShift == 22
Base == 2 ^ TimestampShift
\* The last digit of a 64-bit identifier holds its upper 64 - 2 * 22 bits.
TopDigits == 2 ^ (64 - 2 * TimestampShift)

\* FLUXER_EPOCH = 1420070400000 = 338571 * 2^22 + 700416
\* (2015-01-01T00:00:00Z in milliseconds since 1970).
FLUXER_EPOCH == <<700416, 338571>>

\* n >> 22 of a three-digit number: its two upper digits.
ShiftRight(n) == <<n[2], n[3]>>
\* n & (2^22 - 1): its lowest digit.
LowBits(n) == <<n[1], 0>>
\* a + b of two-digit numbers, with the carry out of the lower digit.
Plus(a, b) ==
    LET low == a[1] + b[1]
    IN  <<low % Base, a[2] + b[2] + (low \div Base)>>
\* a <= b of numbers of as many digits.
RECURSIVE LessEqFrom(_, _, _)
LessEqFrom(a, b, i) ==
    IF i = 0 THEN TRUE
    ELSE IF a[i] # b[i] THEN a[i] < b[i]
    ELSE LessEqFrom(a, b, i - 1)
LessEq(a, b) == LessEqFrom(a, b, Len(a))

\* A conversion that keeps the low 22 bits instead of dropping them.
TimestampMsOfLowBits(snowflake) == Plus(LowBits(snowflake), FLUXER_EPOCH)
\* timestamp_ms = (int(snowflake) >> 22) + FLUXER_EPOCH
TimestampMs(snowflake) == Plus(ShiftRight(snowflake), FLUXER_EPOCH)

\* The identifiers converted: every combination of the digits at which
\* something changes (zero, one, the largest digit, and the middle digits
\* around the carry of the addition of the epoch), and the identifier
\* 175928847299117063 = <<131079, 1665796, 10000>>.
LowDigits == {0, 1, Base - 1}
MiddleDigits ==
    {0, 1, Base - FLUXER_EPOCH[1] - 1, Base - FLUXER_EPOCH[1], Base - 1}
HighDigits == {0, 1, TopDigits - 1}
Snowflakes ==
    { <<l, m, h>> : l \in LowDigits, m \in MiddleDigits, h \in HighDigits }
      \cup { <<131079, 1665796, 10000>> }

UtilInitState ==
    /\ snowflakes \in Snowflakes \X Snowflakes
    /\ timestamps = <<>>

\* snowflake_to_datetime(snowflake), for the next of the identifiers
SnowflakeToDatetime ==
    /\ Len(timestamps) < Len(snowflakes)
    /\ timestamps' = Append(timestamps, TimestampMs(snowflakes[Len(timestamps) + 1]))
    /\ UNCHANGED <<snowflakes, cogVars, hydVars, opVars>>

InitUtils == UtilInitState /\ CogIdle /\ HydIdle /\ OpIdle
NextUtils == SnowflakeToDatetime
SpecUtils == InitUtils /\ [][NextUtils]_vars

(***************************************************************************)
(* Claims about the cog registry                                           *)
(***************************************************************************)
AllNames == MethodNames \cup CommandNames \cup EventNames
Rank(name) == CHOOSE i \in 1..Len(NameOrder) : NameOrder[i] = name
Idx(cls) == 1..Len(cls)
\* The names the decorators resolve a method to.
CmdOf(m) == IF m.cog_command_name = NoAttr THEN m.name ELSE m.cog_command_name
EventOf(m) == IF m.cog_listener_name = NoAttr THEN m.name ELSE m.cog_listener_name
IsPublic(m) == ~StartsWithUnderscore(m.name)
\* Positions of the methods tagged as listeners for event e / commands named n.
ListenersFor(cls, e) == { i \in Idx(cls) : cls[i].cog_listener /\ EventOf(cls[i]) = e }
CommandsFor(cls, n) == { i \in Idx(cls) : cls[i].cog_command /\ CmdOf(cls[i]) = n }
PublicListenersFor(cls, e) == { i \in ListenersFor(cls, e) : IsPublic(cls[i]) }
PublicCommandsFor(cls, n) == { i \in CommandsFor(cls, n) : IsPublic(cls[i]) }
\* The names of the methods at positions I, in declaration order.
InDeclarationOrder(cls, I) ==
    LET sel == SelectSeq([i \in Idx(cls) |-> i], LAMBDA i : i \in I)
    IN  [k \in 1..Len(sel) |-> cls[sel[k]].name]
\* The names of the methods at positions I, in alphabetical order.
InAlphabeticalOrder(cls, I) ==
    SelectSeq(NameOrder, LAMBDA n : \E i \in I : cls[i].name = n)
ListenerList(e) == IF e \in DOMAIN _listeners THEN _listeners[e] ELSE <<>>

\* Every method the class declares has a name without leading underscore.
AllPublic(cls) == \A i \in Idx(cls) : IsPublic(cls[i])

\* C3 (as stated): when two or more methods are tagged as listeners for one
\* event name, construction registers all of them in that event's list, in
\* the order the methods were declared in the class.  (Stated here for the
\* classes the claim is most at home in, those without underscore names.)
C3_DeclarationOrder ==
    (cogState = "constructed" /\ AllPublic(cogClass)) =>
        \A e \in AllNames :
            Cardinality(ListenersFor(cogClass, e)) >= 2 =>
                ListenerList(e) = InDeclarationOrder(cogClass, ListenersFor(cogClass, e))

\* C3 (amended): when two or more methods whose names do not start with an
\* underscore are tagged as listeners for one event name, construction
\* registers all of them in that event's list, in the alphabetical order of
\* the method names (the order of dir()), whatever the declaration order.
C3_AlphabeticalOrder ==
    cogState = "constructed" =>
        \A e \in AllNames :
            Cardinality(PublicListenersFor(cogClass, e)) >= 2 =>
                ListenerList(e) =
                    InAlphabeticalOrder(cogClass, PublicListenersFor(cogClass, e))

\* Two listeners of one event, declared in the reverse of alphabetical order,
\* have been registered.
C3_Witness ==
    /\ cogState = "constructed"
    /\ \E e \in AllNames : \E i, j \in PublicListenersFor(cogClass, e) :
          /\ i < j
          /\ Rank(cogClass[i].name) > Rank(cogClass[j].name)
          /\ ListenerList(e) = <<cogClass[j].name, cogClass[i].name>>

\* Another command-tagged method (at a position other than i) resolves to key k.
OtherCommandClaims(cls, i, k) == \E j \in CommandsFor(cls, k) : j # i
OtherPublicCommandClaims(cls, i, k) == \E j \in PublicCommandsFor(cls, k) : j # i
\* A command resolving to key k is discovered after the method at position i.
LaterCommandClaims(cls, i, k) ==
    \E j \in PublicCommandsFor(cls, k) : Rank(cls[j].name) > Rank(cls[i].name)

\* C4 (as stated): a method tagged as a command with explicit name N is in
\* the index under N, and the index has no entry under the method's own name
\* unless that name equals N or another command claims that key; a command
\* tagged without a name is in the index under the method's own name.
\* (Stated here for the classes without underscore names.)
C4_IndexedUnderExplicitName ==
    (cogState = "constructed" /\ AllPublic(cogClass)) =>
        \A i \in Idx(cogClass) :
            LET m == cogClass[i] IN
            m.cog_command =>
                IF m.cog_command_name # NoAttr
                THEN /\ m.cog_command_name \in DOMAIN _commands
                     /\ _commands[m.cog_command_name] = m.name
                     /\ (m.name \in DOMAIN _commands =>
                            \/ m.name = m.cog_command_name
                            \/ OtherCommandClaims(cogClass, i, m.name))
                ELSE /\ m.name \in DOMAIN _commands
                     /\ _commands[m.name] = m.name

\* C4 (amended): for a method whose name does not start with an underscore,
\* tagged as a command and resolving to key N (the explicit name, else the
\* method's own name): the index has an entry under N, and that entry is the
\* method itself exactly when no command discovered later resolves to N; the
\* index has no entry under the method's own name unless that name equals N
\* or another discovered command resolves to it.
C4_IndexedUnderResolvedName ==
    cogState = "constructed" =>
        \A i \in Idx(cogClass) :
            LET m == cogClass[i] IN
            (m.cog_command /\ IsPublic(m)) =>
                /\ CmdOf(m) \in DOMAIN _commands
                /\ (_commands[CmdOf(m)] = m.name) <=>
                        ~LaterCommandClaims(cogClass, i, CmdOf(m))
                /\ (m.name \in DOMAIN _commands =>
                        \/ m.name = CmdOf(m)
                        \/ OtherPublicCommandClaims(cogClass, i, m.name))

\* A command with an explicit name other than its own is in the index under
\* the explicit name, and the index has no entry under the method's name.
C4_Witness ==
    /\ cogState = "constructed"
    /\ \E i \in Idx(cogClass) :
          /\ cogClass[i].cog_command
          /\ cogClass[i].cog_command_name \in CommandNames
          /\ cogClass[i].cog_command_name # cogClass[i].name
          /\ cogClass[i].cog_command_name \in DOMAIN _commands
          /\ _commands[cogClass[i].cog_command_name] = cogClass[i].name
          /\ cogClass[i].name \notin DOMAIN _commands

\* The method, among those at positions I, that dir() lists last.
LastDiscovered(cls, I) ==
    cls[CHOOSE i \in I : \A j \in I : Rank(cls[j].name) <= Rank(cls[i].name)].name

\* C5 (as stated): when several methods are tagged as commands resolving to
\* one name, the index holds under that name the last one discovered; and for
\* every event name the length of its listener list is the number of
\* listener-tagged methods resolving to it.
C5_LastCommandWinsListenersKept ==
    cogState = "constructed" =>
        /\ \A n \in AllNames :
              Cardinality(CommandsFor(cogClass, n)) >= 2 =>
                  /\ n \in DOMAIN _commands
                  /\ _commands[n] = LastDiscovered(cogClass, CommandsFor(cogClass, n))
        /\ \A e \in AllNames :
              Len(ListenerList(e)) = Cardinality(ListenersFor(cogClass, e))

\* C5 (amended): the same, counting only the methods discovery looks at,
\* those whose names do not start with an underscore.
C5_LastPublicCommandWinsListenersKept ==
    cogState = "constructed" =>
        /\ \A n \in AllNames :
              Cardinality(PublicCommandsFor(cogClass, n)) >= 2 =>
                  /\ n \in DOMAIN _commands
                  /\ _commands[n] =
                        LastDiscovered(cogClass, PublicCommandsFor(cogClass, n))
        /\ \A e \in AllNames :
              Len(ListenerList(e)) = Cardinality(PublicListenersFor(cogClass, e))

\* Two commands of one name and two listeners of one event were discovered:
\* one command is left, both listeners are.
C5_Witness ==
    /\ cogState = "constructed"
    /\ \E n \in AllNames :
          /\ Cardinality(PublicCommandsFor(cogClass, n)) = 2
          /\ _commands[n] = LastDiscovered(cogClass, PublicCommandsFor(cogClass, n))
    /\ \E e \in AllNames :
          /\ Cardinality(PublicListenersFor(cogClass, e)) = 2
          /\ Len(ListenerList(e)) = 2

(***************************************************************************)
(* Claims about hydration                                                  *)
(***************************************************************************)
\* The spec's MalformedPayload outcome: the exception from_data raises for
\* a missing key (KeyError) or an id that is no number (ValueError).
MalformedPayload == {"KeyError", "ValueError"}

RequiredKeys(kind) ==
    CASE kind = "Channel" -> {"id", "type"}
      [] kind = "Message" -> {"id", "channel_id", "author", "timestamp"}
      [] kind = "Guild" -> {"id"}
      [] kind = "GuildMember" -> {"user"}
      [] kind = "Reaction" -> {"emoji"}
      [] kind = "PartialEmoji" -> {}

OptionalKeys(kind) ==
    CASE kind = "Channel" ->
            {"name", "guild_id", "position", "topic", "nsfw", "parent_id"}
      [] kind = "Message" ->
            {"content", "edited_timestamp", "guild_id", "embeds", "attachments",
             "mentions", "pinned"}
      [] kind = "Guild" ->
            {"name", "icon", "owner_id", "member_count", "unavailable"}
      [] kind = "GuildMember" ->
            {"nick", "avatar", "banner", "accent_color", "roles", "joined_at",
             "join_source_type", "source_invite_code", "inviter_id", "mute",
             "deaf", "communication_disabled_until"}
      [] kind = "Reaction" -> {"count", "me"}
      [] kind = "PartialEmoji" -> {"name", "id", "animated"}

\* The optional numeric ids.
OptionalIdKeys == {"guild_id", "parent_id", "owner_id", "inviter_id", "id"}

\* The entity field a payload key is stored in.
FieldOf(kind, key) ==
    IF kind = "GuildMember" /\ key = "avatar" THEN "avatar_hash" ELSE key

MissingRequired(kind, data) == \E k \in RequiredKeys(kind) : ~Has(data, k)
\* Every id the payload holds is a number, a string of digits, or falsy.
IdsParse(kind, data) ==
    /\ \A k \in RequiredKeys(kind) \cap {"id", "channel_id"} :
          Has(data, k) => IntParses(data[k])
    /\ \A k \in OptionalKeys(kind) \cap OptionalIdKeys :
          Truthy(Get(data, k)) => IntParses(data[k])

\* C6: from_data on a payload lacking a required key ends in MalformedPayload
\* and returns no entity; when the ids that are present parse, the exception
\* is the KeyError of a required key that is missing.
C6_MissingRequiredKeyRaises ==
    (hResult # Pending /\ MissingRequired(hKind, hArgs.data)) =>
        /\ hResult.status \in MalformedPayload
        /\ "entity" \notin DOMAIN hResult
        /\ hResult.status = "KeyError" =>
              /\ hResult.key \in RequiredKeys(hKind)
              /\ ~Has(hArgs.data, hResult.key)
        /\ IdsParse(hKind, hArgs.data) => hResult.status = "KeyError"

\* A Message payload without "author" was hydrated: KeyError on "author".
C6_Witness ==
    /\ hKind = "Message"
    /\ ~Has(hArgs.data, "author")
    /\ Has(hArgs.data, "id") /\ Has(hArgs.data, "timestamp")
    /\ hResult.status = "KeyError"
    /\ hResult.key = "author"

\* The defaults C7 states: false for the five flags, the empty list for the
\* four lists, None for every other optional key.
StatedDefault(key) ==
    IF key \in {"pinned", "nsfw", "unavailable", "me", "animated"} THEN PyFalse
    ELSE IF key \in {"embeds", "attachments", "mentions", "roles"} THEN EmptyList
    ELSE None

\* The defaults of the amended C7: as stated, and also false for mute and
\* deaf, the empty string for content and 0 for count.
AmendedDefault(key) ==
    IF key \in {"mute", "deaf"} THEN PyFalse
    ELSE IF key = "content" THEN EmptyString
    ELSE IF key = "count" THEN JInt(0)
    ELSE StatedDefault(key)

\* C7 (as stated): for a payload with all required keys (its ids parsing)
\* and any subset of the optional keys, from_data returns an entity in which
\* every missing optional key has the stated default: false, the empty list,
\* or None for all other keys; an absent optional id is None, not 0.
C7_StatedDefaults ==
    (hResult # Pending /\ ~MissingRequired(hKind, hArgs.data)
        /\ IdsParse(hKind, hArgs.data)) =>
        /\ hResult.status = "ok"
        /\ \A k \in OptionalKeys(hKind) :
              ~Has(hArgs.data, k) =>
                  hResult.entity[FieldOf(hKind, k)] = StatedDefault(k)

\* C7 (amended): as stated, except that the default of Message.content is
\* the empty string, of Reaction.count is 0, and of GuildMember.mute and
\* GuildMember.deaf is false.
C7_ActualDefaults ==
    (hResult # Pending /\ ~MissingRequired(hKind, hArgs.data)
        /\ IdsParse(hKind, hArgs.data)) =>
        /\ hResult.status = "ok"
        /\ \A k \in OptionalKeys(hKind) :
              ~Has(hArgs.data, k) =>
                  /\ hResult.entity[FieldOf(hKind, k)] = AmendedDefault(k)
                  /\ k \in OptionalIdKeys =>
                        hResult.entity[FieldOf(hKind, k)] # JInt(0)

\* A Message payload holding the required keys only was hydrated.
C7_Witness ==
    /\ hKind = "Message"
    /\ ~MissingRequired("Message", hArgs.data)
    /\ \A k \in OptionalKeys("Message") : ~Has(hArgs.data, k)
    /\ hResult.status = "ok"
    /\ hResult.entity.pinned = PyFalse
    /\ hResult.entity.guild_id = None
    /\ hResult.entity.mentions = EmptyList
    /\ hResult.entity.content = EmptyString

(***************************************************************************)
(* Claims about the bound operations                                       *)
(***************************************************************************)
\* The spec's Unbound outcome: the RuntimeError the guards raise.
Unbound == "RuntimeError"
HandleGuardedOperations ==
    {"Channel.send", "Channel.fetch_message", "Message.reply", "Message.edit",
     "Message.delete", "Guild.fetch_emojis"}
ReactionOperations == {"Reaction.remove", "Reaction.clear"}

\* C1: send, fetch_message, reply, edit, delete and fetch_emojis called on an
\* entity without transport handle end in Unbound, and no transport call is
\* issued.
C1_NoHandleRaisesUnbound ==
    (outcome.op \in HandleGuardedOperations /\ self._http = None) =>
        /\ outcome.status = Unbound
        /\ calls = <<>>
        /\ reply = NoReply

\* send was called on a Channel without handle.
C1_Witness ==
    /\ outcome.op = "Channel.send"
    /\ self.kind = "Channel"
    /\ self._http = None
    /\ outcome.status = Unbound

\* C2: Reaction.remove and Reaction.clear end in Unbound without a transport
\* call when the handle or the Message is missing; otherwise they issue
\* exactly one reaction-removal call, for the Message's channel_id and id.
C2_ReactionNeedsHandleAndMessage ==
    outcome.op \in ReactionOperations =>
        IF self._http = None \/ self._message = None
        THEN /\ outcome.status = Unbound
             /\ calls = <<>>
             /\ reply = NoReply
        ELSE /\ Len(calls) = 1
             /\ calls[1].op = IF outcome.op = "Reaction.remove"
                              THEN "delete_reaction"
                              ELSE "delete_all_reactions_for_emoji"
             /\ calls[1].channel_id = self._message.channel_id
             /\ calls[1].message_id = self._message.id
             /\ calls[1].emoji = self.emoji
             /\ outcome.status # Unbound

\* remove was called on a Reaction that has a handle and no Message.
C2_Witness ==
    /\ outcome.op = "Reaction.remove"
    /\ self._http # None
    /\ self._message = None
    /\ outcome.status = Unbound
    /\ calls = <<>>

\* C8: fetch_emojis on a Guild with a handle issues one list call for the
\* guild's id; when the transport answers, it returns one emoji per payload,
\* in the payloads' order, each with the guild's id as guild_id and with the
\* guild's handle, whether or not the payload holds a guild_id.
C8_EmojisCarryGuildId ==
    (outcome.op = "Guild.fetch_emojis" /\ self._http # None) =>
        /\ calls = <<[op |-> "get_guild_emojis", guild_id |-> self.id]>>
        /\ reply.status = "ok" =>
              /\ outcome.status = "ok"
              /\ Len(outcome.value.items) = Len(reply.payload.items)
              /\ \A i \in 1..Len(reply.payload.items) :
                    /\ outcome.value.items[i].id = PyInt(reply.payload.items[i].id)
                    /\ outcome.value.items[i].guild_id = self.id
                    /\ outcome.value.items[i]._http = self._http

\* fetch_emojis returned two emojis: the payload of the first holds no
\* guild_id, the payload of the second holds that of another guild.
C8_Witness ==
    /\ outcome.op = "Guild.fetch_emojis"
    /\ outcome.status = "ok"
    /\ Len(reply.payload.items) = 2
    /\ ~Has(reply.payload.items[1], "guild_id")
    /\ Has(reply.payload.items[2], "guild_id")
    /\ PyInt(reply.payload.items[2].guild_id) # self.id
    /\ reply.payload.items[1].id # reply.payload.items[2].id
    /\ outcome.value.items[1].guild_id = self.id
    /\ outcome.value.items[2].guild_id = self.id

\* C9: after any sequence of bound operations, ended in a value or in an
\* exception, every field of the entity they were called on, its handle
\* included, is as from_data returned it; what edit and reply return is the
\* Message hydrated from the transport's answer.
C9_OperationsDoNotMutateSelf ==
    /\ self = asHydrated
    /\ (outcome.op \in {"Message.edit", "Message.reply"} /\ outcome.status = "ok") =>
          /\ IsMessage(outcome.value)
          /\ outcome.value = MessageFromData(reply.payload, self._http).entity

\* edit returned a Message whose content differs from that of the Message it
\* was called on, which is unchanged.
C9_Witness ==
    /\ outcome.op = "Message.edit"
    /\ outcome.status = "ok"
    /\ outcome.value.content # self.content
    /\ outcome.value.id # self.id
    /\ self = asHydrated

\* C10: an operation issues at most one transport call, and when the
\* transport raises, the operation ends in that exception and returns
\* nothing.
C10_TransportFailurePropagates ==
    /\ Len(calls) <= 1
    /\ reply.status = "error" =>
          /\ Len(calls) = 1
          /\ outcome.status = reply.err
          /\ outcome.value = None

\* send was answered Forbidden and ended in Forbidden after one call.
C10_Witness ==
    /\ outcome.op = "Channel.send"
    /\ reply = Failure("Forbidden")
    /\ outcome.status = "Forbidden"
    /\ Len(calls) = 1

\* The operations that return a Message.
MessageReturningOperations ==
    {"Channel.send", "Channel.fetch_message", "Message.reply", "Message.edit"}
HandleForwarded ==
    (outcome.op \in MessageReturningOperations /\ outcome.status = "ok") =>
        /\ IsMessage(outcome.value)
        /\ outcome.value._http = self._http
        /\ outcome.value.author._http = self._http
        /\ \A i \in 1..Len(outcome.value.mentions.items) :
              outcome.value.mentions.items[i]._http = self._http
ChainNeverUnbound ==
    outcome.op \in MessageReturningOperations => outcome.status # Unbound

\* C11: the Message returned by send, fetch_message, reply or edit, its
\* author and its mentions carry the handle of the entity the operation was
\* called on; and when the first entity has a handle, no send, fetch_message,
\* reply or edit along a chain of calls on the returned Messages ends in
\* Unbound.
C11_HandleForwardedAlongChains ==
    /\ []HandleForwarded
    /\ (self._http # None) => []ChainNeverUnbound

\* reply was called on a Message that an earlier operation returned, and
\* returned a Message with a mention; all carry the first entity's handle.
C11_Witness ==
    /\ self.kind = "Message"
    /\ self.id \in {PyInt(p.id) : p \in AnsweredMessagePayloads}
    /\ self._http # None
    /\ outcome.op = "Message.reply"
    /\ outcome.status = "ok"
    /\ Len(outcome.value.mentions.items) > 0
    /\ outcome.value.mentions.items[1]._http = self._http
    /\ outcome.value._http = self._http

(***************************************************************************)
(* Claims about the hooks and the life of a cog                            *)
(***************************************************************************)
\* C12: once the cog is constructed, whatever load and unload hooks have
\* run since, the command index and the listener index are what discovery
\* produced at construction, and no handler method has been called by
\* construction or by a hook.
C12_RegistryIsPureIndex ==
    cogState # "declared" =>
        /\ _commands = DiscoverHandlers(cogClass).commands
        /\ _listeners = DiscoverHandlers(cogClass).listeners
        /\ invoked = {}

\* Both hooks have run on a cog that indexes a command and two listeners of
\* one event.
C12_Witness ==
    /\ hooksRun = {"cog_load", "cog_unload"}
    /\ _commands # EmptyDict
    /\ \E e \in DOMAIN _listeners : Len(_listeners[e]) = 2
    /\ _listeners = DiscoverHandlers(cogClass).listeners
    /\ invoked = {}

LifecycleSteps ==
    { <<"declared", "constructed">>, <<"constructed", "loaded">>,
      <<"loaded", "destroyed">> }

\* C13: a cog goes from constructed to loaded to destroyed and no other way;
\* it is loaded only once its load hook has run; once destroyed its unload
\* hook has run, the dispatcher holds none of its commands or listeners,
\* and it stays destroyed.
C13_Lifecycle ==
    /\ [](cogState = "loaded" => "cog_load" \in hooksRun)
    /\ [](cogState = "destroyed" =>
            /\ "cog_unload" \in hooksRun
            /\ dispatcher = NoHandlers)
    /\ [][cogState' # cogState => <<cogState, cogState'>> \in LifecycleSteps]_vars
    /\ [][cogState = "destroyed" => cogState' = "destroyed"]_vars

\* A cog with a command and a listener has been loaded and then unloaded:
\* the dispatcher holds nothing of it.
C13_Witness ==
    /\ cogState = "destroyed"
    /\ _commands # EmptyDict
    /\ _listeners # EmptyDict
    /\ dispatcher = NoHandlers
    /\ hooksRun = {"cog_load", "cog_unload"}

(***************************************************************************)
(* Claims about the timestamp of a Snowflake                               *)
(***************************************************************************)
\* C14: for identifiers m <= n of the non-negative 64-bit range, the
\* timestamp_ms of m is at most that of n; identifiers that differ only in
\* their low 22 bits have the same timestamp_ms; and no timestamp_ms is
\* before FLUXER_EPOCH, 2015-01-01T00:00:00Z.
C14_TimestampMonotonic ==
    Len(timestamps) = 2 =>
        /\ LessEq(snowflakes[1], snowflakes[2]) =>
              LessEq(timestamps[1], timestamps[2])
        /\ (/\ snowflakes[1][2] = snowflakes[2][2]
            /\ snowflakes[1][3] = snowflakes[2][3]) =>
              timestamps[1] = timestamps[2]
        /\ \A i \in 1..2 : LessEq(FLUXER_EPOCH, timestamps[i])

\* Two identifiers m < n have been converted: adding the epoch carries into
\* the upper digit for n and not for m, so the lower digit of n's timestamp
\* is the smaller one and its upper digit the larger one.
C14_Witness ==
    /\ Len(timestamps) = 2
    /\ snowflakes[1] # snowflakes[2]
    /\ LessEq(snowflakes[1], snowflakes[2])
    /\ snowflakes[1][3] = snowflakes[2][3]
    /\ timestamps[2][1] < timestamps[1][1]
    /\ timestamps[2][2] > timestamps[1][2]

====
